---- MODULE Spec2Model ----
(***************************************************************************)
(* Model of internal/database/mysql.go: the MySQL migration registry       *)
(* (mysqlMigrator), the connect-verify-migrate lifecycle (mysql.Connect)   *)
(* and the disposable test database (CreateTestMySQLDB, TestMySQLDB.Close).*)
(*                                                                         *)
(* The Migration Runner (migrator.Migrate) and the execsql helper are not  *)
(* part of mysql.go; they are modelled from spec.md section 4.2.           *)
(***************************************************************************)
EXTENDS Integers, Sequences, FiniteSets, TLC

\* ------------------------------------------------------------------ bounds
\* Connect calls a production caller may make, one after the other.
MaxCalls == 3
\* Failures of the environment (driver, network, process) in one behaviour.
MaxFaults == 2
\* Probe attempts of the readiness poll (pool.Retry) before it gives up.
MaxProbes == 2
\* Tables into which the application has written rows in one behaviour.
MaxWrites == 1
\* Calls of TestMySQLDB.Close a test makes on the resource it was given.
MaxCloses == 2

Callers == {1, 2}

\* ---------------------------------------------------------------- registry
\* The Registry with the column added before its table is created: the
\* last Step and create_ofac_download_stats have changed places.
RegistryAlterBeforeCreate ==
  << [id |-> "create_customer_name_watches", kind |-> "create",
      table |-> "customer_name_watches", column |-> ""],
     [id |-> "create_customer_status", kind |-> "create",
      table |-> "customer_status", column |-> ""],
     [id |-> "create_customer_watches", kind |-> "create",
      table |-> "customer_watches", column |-> ""],
     [id |-> "create_company_name_watches", kind |-> "create",
      table |-> "company_name_watches", column |-> ""],
     [id |-> "create_company_status", kind |-> "create",
      table |-> "company_status", column |-> ""],
     [id |-> "create_company_watches", kind |-> "create",
      table |-> "company_watches", column |-> ""],
     [id |-> "add__denied_persons__to__ofac_download_stats", kind |-> "addcol",
      table |-> "ofac_download_stats", column |-> "denied_persons"],
     [id |-> "create_webhook_stats", kind |-> "create",
      table |-> "webhook_stats", column |-> ""],
     [id |-> "create_ofac_download_stats", kind |-> "create",
      table |-> "ofac_download_stats", column |-> ""] >>

\* mysqlMigrator: the ordered list of Steps, each an id and one statement.
\* kind "create" is `create table if not exists <table>(...)`,
\* kind "addcol" is `alter table <table> add column <column> ...`.
Registry ==
  << [id |-> "create_customer_name_watches", kind |-> "create",
      table |-> "customer_name_watches", column |-> ""],
     [id |-> "create_customer_status", kind |-> "create",
      table |-> "customer_status", column |-> ""],
     [id |-> "create_customer_watches", kind |-> "create",
      table |-> "customer_watches", column |-> ""],
     [id |-> "create_company_name_watches", kind |-> "create",
      table |-> "company_name_watches", column |-> ""],
     [id |-> "create_company_status", kind |-> "create",
      table |-> "company_status", column |-> ""],
     [id |-> "create_company_watches", kind |-> "create",
      table |-> "company_watches", column |-> ""],
     [id |-> "create_ofac_download_stats", kind |-> "create",
      table |-> "ofac_download_stats", column |-> ""],
     [id |-> "create_webhook_stats", kind |-> "create",
      table |-> "webhook_stats", column |-> ""],
     [id |-> "add__denied_persons__to__ofac_download_stats", kind |-> "addcol",
      table |-> "ofac_download_stats", column |-> "denied_persons"] >>

NumSteps == Len(Registry)
Steps == 1..NumSteps
StepIds == {Registry[i].id : i \in Steps}

\* The ids of the Registry, in order.
RegistryIds == [i \in Steps |-> Registry[i].id]

\* No id occurs twice in the list q.
Distinct(q) == \A m, n \in 1..Len(q) : m # n => q[m] # q[n]

\* Lists of Steps a build may hand to migrator.New: the shipped one, and
\* the shipped one with the id of one Step repeated on another.
Candidates ==
  {RegistryIds} \cup
  {[RegistryIds EXCEPT ![m] = RegistryIds[n]] : m, n \in Steps}

\* A constructor that takes any list of Steps.
NewAcceptsAll(q) == TRUE

\* Whether the construction of a Registry from the list q goes through:
\* duplicate ids are rejected.
NewAccepts(q) == Distinct(q)

VARIABLES
  db,          \* the database: tables, added columns, tables holding
               \* application rows, tracker table and tracker rows
  pc,          \* pc[c]: where caller c is inside Connect
  handle,      \* handle[c]: the *sql.DB of the current call: none/open/closed
  pos,         \* pos[c]: Registry position of the Migrate loop
  ret,         \* ret[c]: what the last Connect returned: [db, err]
  callsLeft,   \* callsLeft[c]: Connect calls c may still start
  faultsLeft,  \* environment failures that may still happen
  tried,       \* tried[c]: per stage, how often the current call attempted it
  ran,         \* ran[c]: positions whose statements the current call executed
  db0,         \* db0[c]: the database as the current call of c found it
  prevOk,      \* prevOk[c]: the call before the current one returned no error
  failedAt,    \* failedAt[c]: the Step at which the current call's Migrate failed, or 0
  lastFail,    \* lastFail[c]: failedAt of the call before the current one
  faulted,     \* faulted[c]: an environment failure hit the current call
  tpc,         \* where the test (CreateTestMySQLDB, then Close) is
  container,   \* the dockertest resource: none/running/closed
  probes,      \* probe attempts the readiness poll has made
  probeOpen,   \* probe handles currently open
  tdb,         \* the DB field of the returned TestMySQLDB: none/open/closed
  closeLog,    \* the release operations of TestMySQLDB.Close, in order
  closes,      \* calls of TestMySQLDB.Close begun so far
  contRes,     \* result of the last r.container.Close(): none/nil/failed/gone
  closeRet,    \* what the last TestMySQLDB.Close returned: none/nil/err/panic
  firstOk,     \* the first Close released the instance and the handle
  reg,         \* the ids of the Steps handed to migrator.New, in order
  built        \* the construction of mysqlMigrator: pending/ok/rejected

callerVars == <<pc, handle, pos, ret, callsLeft, tried, ran, db0, prevOk,
                failedAt, lastFail, faulted>>
closeVars == <<closes, contRes, closeRet, firstOk>>
testVars == <<tpc, container, probes, probeOpen, tdb, closeLog, closeVars>>
regVars == <<reg, built>>
vars == <<db, faultsLeft, callerVars, testVars, regVars>>

\* ---------------------------------------------------------------- database
EmptyDB ==
  [tables |-> {}, columns |-> {}, data |-> {}, trackerTable |-> FALSE,
   tracker |-> [i \in Steps |-> 0]]

\* Rows of the Tracker that carry the id of the Step at position i.
Rows(d, i) == d.tracker[i]
Recorded(d, i) == Rows(d, i) > 0
RecordedSet(d) == {i \in Steps : Recorded(d, i)}

\* Whether the statement of Step i succeeds on database d (MySQL semantics):
\* "create table if not exists" always does; "alter table add column" needs
\* the table to exist and the column not to.
StepOK(d, i) ==
  IF Registry[i].kind = "create" THEN TRUE
  ELSE /\ Registry[i].table \in d.tables
       /\ <<Registry[i].table, Registry[i].column>> \notin d.columns

\* "create table" run as drop-and-create: the table's rows are lost.
StepEffectRecreates(d, i) ==
  IF Registry[i].kind = "create"
    THEN [d EXCEPT !.tables = @ \cup {Registry[i].table},
                   !.data = @ \ {Registry[i].table}]
    ELSE [d EXCEPT !.columns = @ \cup {<<Registry[i].table, Registry[i].column>>}]

\* The database after the statement of Step i succeeded on d.  Neither
\* kind of statement touches the rows the tables hold.
StepEffect(d, i) ==
  IF Registry[i].kind = "create"
    THEN [d EXCEPT !.tables = @ \cup {Registry[i].table}]
    ELSE [d EXCEPT !.columns = @ \cup {<<Registry[i].table, Registry[i].column>>}]

\* The schema effect of Step i is present in d.
Applied(d, i) ==
  IF Registry[i].kind = "create" THEN Registry[i].table \in d.tables
  ELSE <<Registry[i].table, Registry[i].column>> \in d.columns

NoTry == [open |-> 0, ping |-> 0, migrate |-> 0]

\* The state before any call: an empty database, no call in progress.
\* calls: the Connect calls each production caller may make; t: where the
\* test starts ("off": no test runs).
StartWith(calls, t) ==
  /\ db = EmptyDB
  /\ pc = [c \in Callers |-> "idle"]
  /\ handle = [c \in Callers |-> "none"]
  /\ pos = [c \in Callers |-> 0]
  /\ ret = [c \in Callers |-> [db |-> "nil", err |-> "nil"]]
  /\ callsLeft = calls
  /\ faultsLeft = MaxFaults
  /\ tried = [c \in Callers |-> NoTry]
  /\ ran = [c \in Callers |-> <<>>]
  /\ db0 = [c \in Callers |-> EmptyDB]
  /\ prevOk = [c \in Callers |-> FALSE]
  /\ failedAt = [c \in Callers |-> 0]
  /\ lastFail = [c \in Callers |-> 0]
  /\ faulted = [c \in Callers |-> FALSE]
  /\ tpc = t
  /\ container = "none"
  /\ probes = 0
  /\ probeOpen = 0
  /\ tdb = "none"
  /\ closeLog = <<>>
  /\ closes = 0
  /\ contRes = "none"
  /\ closeRet = "none"
  /\ firstOk = FALSE

\* The same, with mysqlMigrator constructed from the shipped Registry.
InitWith(calls, t) ==
  /\ StartWith(calls, t)
  /\ reg = RegistryIds
  /\ built = "ok"

\* One production caller, calling Connect up to MaxCalls times in a row.
Init == InitWith([c \in Callers |-> IF c = 1 THEN MaxCalls ELSE 0], "off")

\* ------------------------------------------------------------ environment
\* A call into the driver either works or fails for a reason outside the
\* program (network, permissions, server gone); failures are budgeted.
Outcomes == {"ok", "fault"}
CanHappen(o) == o = "ok" \/ faultsLeft > 0
Spend(o) == faultsLeft' = IF o = "ok" THEN faultsLeft ELSE faultsLeft - 1

\* ----------------------------------------------------------------- Connect
\* `return h, e` of Connect.
ConnectReturns(c, h, e) ==
  /\ pc' = [pc EXCEPT ![c] = "returned"]
  /\ ret' = [ret EXCEPT ![c] = [db |-> h, err |-> e]]

\* Entry of Connect: fresh locals; the call's bookkeeping starts over.
BeginConnect(c) ==
  /\ pc' = [pc EXCEPT ![c] = "open"]
  /\ handle' = [handle EXCEPT ![c] = "none"]
  /\ pos' = [pos EXCEPT ![c] = 0]
  /\ tried' = [tried EXCEPT ![c] = NoTry]
  /\ ran' = [ran EXCEPT ![c] = <<>>]
  /\ db0' = [db0 EXCEPT ![c] = db]
  /\ prevOk' = [prevOk EXCEPT ![c] = (pc[c] = "returned" /\ ret[c].err = "nil")]
  /\ lastFail' = [lastFail EXCEPT ![c] = failedAt[c]]
  /\ failedAt' = [failedAt EXCEPT ![c] = 0]
  /\ faulted' = [faulted EXCEPT ![c] = FALSE]
  /\ UNCHANGED <<db, ret, faultsLeft>>

\* A production caller invokes Connect.
ConnectCall(c) ==
  /\ built = "ok"
  /\ pc[c] \in {"idle", "returned"}
  /\ callsLeft[c] > 0
  /\ callsLeft' = [callsLeft EXCEPT ![c] = @ - 1]
  /\ BeginConnect(c)
  /\ UNCHANGED <<testVars, regVars>>

\* db, err := sql.Open("mysql", my.dsn); if err != nil { return nil, err }
ConnectOpen(c) ==
  /\ pc[c] = "open"
  /\ \E o \in Outcomes :
       /\ CanHappen(o)
       /\ Spend(o)
       /\ tried' = [tried EXCEPT ![c].open = @ + 1]
       /\ IF o = "ok"
            THEN /\ handle' = [handle EXCEPT ![c] = "open"]
                 /\ pc' = [pc EXCEPT ![c] = "ping"]
                 /\ UNCHANGED <<ret, faulted>>
            ELSE /\ ConnectReturns(c, "nil", "open_err")
                 /\ faulted' = [faulted EXCEPT ![c] = TRUE]
                 /\ UNCHANGED handle
  /\ UNCHANGED <<db, pos, callsLeft, ran, db0, prevOk, failedAt, lastFail>>
  /\ UNCHANGED <<testVars, regVars>>

\* A Connect that goes on to Migrate although the ping failed.
ConnectPingIgnoresError(c) ==
  /\ pc[c] = "ping"
  /\ \E o \in Outcomes :
       /\ CanHappen(o)
       /\ Spend(o)
       /\ tried' = [tried EXCEPT ![c].ping = @ + 1]
       /\ pc' = [pc EXCEPT ![c] = "migrate"]
       /\ faulted' = [faulted EXCEPT ![c] = (@ \/ o = "fault")]
       /\ UNCHANGED ret
  /\ UNCHANGED <<db, handle, pos, callsLeft, ran, db0, prevOk, failedAt, lastFail>>
  /\ UNCHANGED <<testVars, regVars>>

\* A Connect that pings again when the ping failed.
ConnectPingRetries(c) ==
  /\ pc[c] = "ping"
  /\ \E o \in Outcomes :
       /\ CanHappen(o)
       /\ Spend(o)
       /\ tried' = [tried EXCEPT ![c].ping = @ + 1]
       /\ pc' = [pc EXCEPT ![c] = IF o = "ok" THEN "migrate" ELSE "ping"]
       /\ faulted' = [faulted EXCEPT ![c] = (@ \/ o = "fault")]
       /\ UNCHANGED ret
  /\ UNCHANGED <<db, handle, pos, callsLeft, ran, db0, prevOk, failedAt, lastFail>>
  /\ UNCHANGED <<testVars, regVars>>

\* if err := db.Ping(); err != nil { return nil, err }
\* The handle is not closed on this path.
ConnectPing(c) ==
  /\ pc[c] = "ping"
  /\ \E o \in Outcomes :
       /\ CanHappen(o)
       /\ Spend(o)
       /\ tried' = [tried EXCEPT ![c].ping = @ + 1]
       /\ IF o = "ok"
            THEN /\ pc' = [pc EXCEPT ![c] = "migrate"]
                 /\ UNCHANGED <<ret, faulted>>
            ELSE /\ ConnectReturns(c, "nil", "ping_err")
                 /\ faulted' = [faulted EXCEPT ![c] = TRUE]
  /\ UNCHANGED <<db, handle, pos, callsLeft, ran, db0, prevOk, failedAt, lastFail>>
  /\ UNCHANGED <<testVars, regVars>>

\* A Connect that drops Migrate's error and hands the handle out anyway.
MigrateFailsSwallowed(c, k) ==
  /\ ConnectReturns(c, "handle", "nil")
  /\ failedAt' = [failedAt EXCEPT ![c] = k]

\* if err := mysqlMigrator.Migrate(db); err != nil { return nil, err }
\* Migrate failed at Registry position k (0: before the first Step).
\* The handle is not closed on this path.
MigrateFails(c, k) ==
  /\ ConnectReturns(c, "nil", "migrate_err")
  /\ failedAt' = [failedAt EXCEPT ![c] = k]

\* return db, nil
ConnectSucceeds(c) ==
  ConnectReturns(c, "handle", "nil")

\* ----------------------------------------------------------------- Migrate
\* Step 1 of Migrate: ensure the Tracker's table exists (create if absent).
MigrateEnsure(c) ==
  /\ pc[c] = "migrate"
  /\ \E o \in Outcomes :
       /\ CanHappen(o)
       /\ Spend(o)
       /\ tried' = [tried EXCEPT ![c].migrate = @ + 1]
       /\ IF o = "ok"
            THEN /\ db' = [db EXCEPT !.trackerTable = TRUE]
                 /\ pos' = [pos EXCEPT ![c] = 1]
                 /\ pc' = [pc EXCEPT ![c] = "check"]
                 /\ UNCHANGED <<ret, failedAt, faulted>>
            ELSE /\ MigrateFails(c, 0)
                 /\ faulted' = [faulted EXCEPT ![c] = TRUE]
                 /\ UNCHANGED <<db, pos>>
  /\ UNCHANGED <<handle, callsLeft, ran, db0, prevOk, lastFail>>
  /\ UNCHANGED <<testVars, regVars>>

\* A loop that advances by two looks at every other Step only.
NextPosSkipsOne(i) == i + 2

\* The Step the loop looks at after the one at position i.
NextPos(i) == i + 1

\* A loop that never consults the Tracker runs every Step on every call.
SkipsNever(d, i) == FALSE

\* Whether the loop skips the Step at position i: its id is in the Tracker.
Skips(d, i) == Recorded(d, i)

\* Step 2a of Migrate: look the Step's id up in the Tracker; skip it when
\* present.  Past the last Step, Migrate returns nil and Connect the handle.
MigrateCheck(c) ==
  /\ pc[c] = "check"
  /\ IF pos[c] > NumSteps
       THEN /\ ConnectSucceeds(c)
            /\ UNCHANGED pos
       ELSE /\ IF Skips(db, pos[c])
                 THEN /\ pos' = [pos EXCEPT ![c] = NextPos(@)]
                      /\ UNCHANGED pc
                 ELSE /\ pc' = [pc EXCEPT ![c] = "exec"]
                      /\ UNCHANGED pos
            /\ UNCHANGED ret
  /\ UNCHANGED <<db, handle, callsLeft, faultsLeft, tried, ran, db0, prevOk,
                 failedAt, lastFail, faulted>>
  /\ UNCHANGED <<testVars, regVars>>

\* A runner that goes on to record the Step although its statements failed.
MigrateExecRecordsAnyway(c) ==
  /\ pc[c] = "exec"
  /\ \E o \in Outcomes :
       /\ CanHappen(o)
       /\ Spend(o)
       /\ db' = IF o = "ok" /\ StepOK(db, pos[c]) THEN StepEffect(db, pos[c]) ELSE db
       /\ pc' = [pc EXCEPT ![c] = "record"]
       /\ faulted' = [faulted EXCEPT ![c] = (@ \/ o = "fault")]
       /\ UNCHANGED <<ret, failedAt>>
  /\ UNCHANGED <<handle, pos, callsLeft, tried, db0, prevOk, lastFail>>
  /\ UNCHANGED <<testVars, regVars>>

\* Step 2b, first half: execute the Step's statements on the handle.
\* Step 2c: on failure return the error at once.
MigrateExec(c) ==
  /\ pc[c] = "exec"
  /\ \E o \in Outcomes :
       /\ CanHappen(o)
       /\ Spend(o)
       /\ IF o = "ok" /\ StepOK(db, pos[c])
            THEN /\ db' = StepEffect(db, pos[c])
                 /\ pc' = [pc EXCEPT ![c] = "record"]
                 /\ UNCHANGED <<ret, failedAt, faulted>>
            ELSE /\ MigrateFails(c, pos[c])
                 /\ faulted' = [faulted EXCEPT ![c] = (@ \/ o = "fault")]
                 /\ UNCHANGED db
  /\ UNCHANGED <<handle, pos, callsLeft, tried, db0, prevOk, lastFail>>
  /\ UNCHANGED <<testVars, regVars>>

\* Outcomes of inserting an id the Tracker already holds (another caller
\* won the race): the engine rejects the row, or tolerates the loser.
LostInsert == {"rejected", "tolerated"}

\* Step 2b, second half: record the Step's id in the Tracker (insert if
\* absent), then go on to the next Step.
MigrateRecord(c) ==
  /\ pc[c] = "record"
  /\ \E o \in Outcomes, l \in LostInsert :
       /\ CanHappen(o)
       /\ Spend(o)
       /\ IF o = "ok" /\ (~Recorded(db, pos[c]) \/ l = "tolerated")
            THEN /\ db' = IF Recorded(db, pos[c]) THEN db
                          ELSE [db EXCEPT !.tracker[pos[c]] = @ + 1]
                 /\ pos' = [pos EXCEPT ![c] = NextPos(@)]
                 /\ pc' = [pc EXCEPT ![c] = "check"]
                 /\ UNCHANGED <<ret, failedAt, faulted>>
            ELSE /\ MigrateFails(c, pos[c])
                 /\ faulted' = [faulted EXCEPT ![c] = (@ \/ o = "fault")]
                 /\ UNCHANGED <<db, pos>>
  /\ UNCHANGED <<handle, callsLeft, tried, ran, db0, prevOk, lastFail>>
  /\ UNCHANGED <<testVars, regVars>>

\* MigrateExec, with the call's execution log kept.
MigrateExecLogged(c) ==
  /\ MigrateExec(c)
  /\ ran' = [ran EXCEPT ![c] = Append(@, pos[c])]

\* The process dies inside Migrate: nothing is returned, the operating
\* system closes the connection, the database keeps what was done so far.
Crash(c) ==
  /\ pc[c] \in {"migrate", "check", "exec", "record"}
  /\ faultsLeft > 0
  /\ faultsLeft' = faultsLeft - 1
  /\ ConnectReturns(c, "nil", "crashed")
  /\ handle' = [handle EXCEPT ![c] = "closed"]
  /\ faulted' = [faulted EXCEPT ![c] = TRUE]
  /\ UNCHANGED <<db, pos, callsLeft, tried, ran, db0, prevOk, failedAt, lastFail>>
  /\ UNCHANGED <<testVars, regVars>>

\* Between two calls the application writes rows into an existing table.
\* The write is none of Connect's doing, so the record of what the last
\* call found takes it over.
AppWrite ==
  /\ \A c \in Callers : pc[c] \in {"idle", "returned"}
  /\ Cardinality(db.data) < MaxWrites
  /\ \E t \in db.tables \ db.data :
       /\ db' = [db EXCEPT !.data = @ \cup {t}]
       /\ db0' = [c \in Callers |-> [db0[c] EXCEPT !.data = @ \cup {t}]]
  /\ UNCHANGED <<faultsLeft, pc, handle, pos, ret, callsLeft, tried, ran,
                 prevOk, failedAt, lastFail, faulted, testVars, regVars>>

Next ==
  \/ \E c \in Callers :
       \/ ConnectCall(c)
       \/ ConnectOpen(c)
       \/ ConnectPing(c)
       \/ MigrateEnsure(c)
       \/ MigrateCheck(c)
       \/ MigrateExecLogged(c)
       \/ MigrateRecord(c)
       \/ Crash(c)
  \/ AppWrite

Spec == Init /\ [][Next]_vars

\* ---------------------------------------------------------- construction
\* var mysqlMigrator = migrator.New(...), at package initialisation: the
\* Registry is constructed, or the construction fails and the program
\* never gets to call Connect.
MigratorNew ==
  /\ built = "pending"
  /\ built' = IF NewAccepts(reg) THEN "ok" ELSE "rejected"
  /\ UNCHANGED <<db, faultsLeft, callerVars, testVars, reg>>

\* A build with any of the candidate lists, before package initialisation.
InitReg ==
  /\ StartWith([c \in Callers |-> IF c = 1 THEN MaxCalls ELSE 0], "off")
  /\ reg \in Candidates
  /\ built = "pending"

NextReg ==
  \/ MigratorNew
  \/ Next

SpecReg == InitReg /\ [][NextReg]_vars

\* Two callers, each invoking Connect once against the same empty database.
InitConc == InitWith([c \in Callers |-> 1], "off")

\* The same steps; the per-call execution log is not kept.
NextConc ==
  \E c \in Callers :
    \/ ConnectCall(c)
    \/ ConnectOpen(c)
    \/ ConnectPing(c)
    \/ MigrateEnsure(c)
    \/ MigrateCheck(c)
    \/ MigrateExec(c) /\ UNCHANGED ran
    \/ MigrateRecord(c)
    \/ Crash(c)

SpecConc == InitConc /\ [][NextConc]_vars

\* ------------------------------------------------------ CreateTestMySQLDB
\* What the test leaves alone while it is not inside Connect.
callUnchanged ==
  UNCHANGED <<db, pc, handle, pos, ret, callsLeft, tried, ran, db0, prevOk,
              failedAt, lastFail, faulted, regVars>>

\* testing.Short() / !docker.Enabled(): t.Skip; dockertest.NewPool fails:
\* t.Fatal; otherwise go on to start the container.
CreateStart ==
  /\ built = "ok"
  /\ tpc = "start"
  /\ \/ /\ tpc' = "skipped"
        /\ UNCHANGED faultsLeft
     \/ \E o \in Outcomes :
          /\ CanHappen(o)
          /\ Spend(o)
          /\ tpc' = IF o = "ok" THEN "run" ELSE "fatal_pool"
  /\ UNCHANGED <<container, probes, probeOpen, tdb, closeLog>>
  /\ UNCHANGED closeVars
  /\ callUnchanged

\* resource, err := pool.RunWithOptions(...); if err != nil { t.Fatal(err) }
CreateRun ==
  /\ tpc = "run"
  /\ \E o \in Outcomes :
       /\ CanHappen(o)
       /\ Spend(o)
       /\ IF o = "ok"
            THEN container' = "running" /\ tpc' = "retry"
            ELSE container' = container /\ tpc' = "fatal_run"
  /\ UNCHANGED <<probes, probeOpen, tdb, closeLog>>
  /\ UNCHANGED closeVars
  /\ callUnchanged

\* pool.Retry calls the probe again while its budget lasts.
RetryBudgetLeft == probes < MaxProbes

\* One attempt of pool.Retry begins: sql.Open of the probe handle.  A failed
\* Open returns the error to Retry, which tries again.
RetryOpen ==
  /\ tpc = "retry"
  /\ RetryBudgetLeft
  /\ probes' = probes + 1
  /\ \E ok \in BOOLEAN :
       IF ok THEN probeOpen' = probeOpen + 1 /\ tpc' = "probing"
       ELSE probeOpen' = probeOpen /\ tpc' = "retry"
  /\ UNCHANGED <<container, tdb, closeLog, faultsLeft>>
  /\ UNCHANGED closeVars
  /\ callUnchanged

\* A probe without the deferred Close: the probe handle stays open.
RetryPingLeaksProbe ==
  /\ tpc = "probing"
  /\ \E ok \in BOOLEAN : tpc' = IF ok THEN "connect" ELSE "retry"
  /\ UNCHANGED <<container, probes, probeOpen, tdb, closeLog, faultsLeft>>
  /\ UNCHANGED closeVars
  /\ callUnchanged

\* defer db.Close(); return db.Ping()
\* The instance may not be up yet, so the ping may fail.
RetryPing ==
  /\ tpc = "probing"
  /\ probeOpen' = probeOpen - 1
  /\ \E ok \in BOOLEAN : tpc' = IF ok THEN "connect" ELSE "retry"
  /\ UNCHANGED <<container, probes, tdb, closeLog, faultsLeft>>
  /\ UNCHANGED closeVars
  /\ callUnchanged

\* pool.Retry gave up: if err != nil { resource.Close(); t.Fatal(err) }
RetryExhausted ==
  /\ tpc = "retry"
  /\ ~RetryBudgetLeft
  /\ container' = "closed"
  /\ tpc' = "fatal_retry"
  /\ UNCHANGED <<probes, probeOpen, tdb, closeLog, faultsLeft>>
  /\ UNCHANGED closeVars
  /\ callUnchanged

\* db, err := mysqlConnection(...).Connect(): the call begins.
CreateConnect ==
  /\ tpc = "connect"
  /\ tpc' = "connecting"
  /\ BeginConnect(1)
  /\ UNCHANGED <<callsLeft, container, probes, probeOpen, tdb, closeLog>>
  /\ UNCHANGED <<closeVars, regVars>>

\* if err != nil { t.Fatal(err) }; return &TestMySQLDB{db, resource}
CreateReturn ==
  /\ tpc = "connecting"
  /\ pc[1] = "returned"
  /\ IF ret[1].err # "nil"
       THEN tpc' = "fatal_connect" /\ tdb' = tdb
       ELSE tpc' = "held" /\ tdb' = "open"
  /\ UNCHANGED <<container, probes, probeOpen, closeLog, faultsLeft>>
  /\ UNCHANGED closeVars
  /\ callUnchanged

\* ------------------------------------------------------- TestMySQLDB.Close
\* r.container.Close(): the result is dropped.  Tearing down a running
\* instance may fail and leave it running; an instance already torn down is
\* reported as gone.  The test may call Close again on the same resource.
CloseContainer ==
  /\ tpc = "held" \/ (tpc = "closed" /\ closes < MaxCloses)
  /\ closes' = closes + 1
  /\ closeLog' = Append(closeLog, "container")
  /\ tpc' = "closing"
  /\ IF container = "running"
       THEN \E o \in Outcomes :
              /\ CanHappen(o)
              /\ Spend(o)
              /\ container' = IF o = "ok" THEN "closed" ELSE "running"
              /\ contRes' = IF o = "ok" THEN "nil" ELSE "failed"
       ELSE /\ contRes' = "gone"
            /\ UNCHANGED <<container, faultsLeft>>
  /\ UNCHANGED <<probes, probeOpen, tdb, closeRet, firstOk>>
  /\ callUnchanged

\* A Close that also clears the field: r.DB = nil.
DBFieldCleared == "nil"

\* What the DB field of the TestMySQLDB refers to once r.DB.Close() has
\* run: still the same, now closed, *sql.DB.
DBFieldAfterClose == "closed"

\* return r.DB.Close(): closing an open handle may report an error and
\* closes it all the same; closing a closed handle reports none; a nil
\* field is a nil dereference.
CloseDB ==
  /\ tpc = "closing"
  /\ closeLog' = Append(closeLog, "db")
  /\ IF tdb = "nil"
       THEN /\ tpc' = "panicked"
            /\ closeRet' = "panic"
            /\ UNCHANGED <<tdb, handle, faultsLeft>>
       ELSE /\ tpc' = "closed"
            /\ tdb' = DBFieldAfterClose
            /\ handle' = [handle EXCEPT ![1] = "closed"]
            /\ IF tdb = "open"
                 THEN \E o \in Outcomes :
                        /\ CanHappen(o)
                        /\ Spend(o)
                        /\ closeRet' = IF o = "ok" THEN "nil" ELSE "err"
                 ELSE closeRet' = "nil" /\ UNCHANGED faultsLeft
  /\ firstOk' = IF closes = 1 THEN (contRes = "nil" /\ closeRet' = "nil") ELSE firstOk
  /\ UNCHANGED <<container, probes, probeOpen, closes, contRes>>
  /\ UNCHANGED <<db, pc, pos, ret, callsLeft, tried, ran, db0, prevOk,
                 failedAt, lastFail, faulted, regVars>>

\* A test that provisions a database, and releases it when it got one.
InitTest == InitWith([c \in Callers |-> 0], "start")

NextTest ==
  \/ CreateStart
  \/ CreateRun
  \/ RetryOpen
  \/ RetryPing
  \/ RetryExhausted
  \/ CreateConnect
  \/ ConnectOpen(1)
  \/ ConnectPing(1)
  \/ MigrateEnsure(1)
  \/ MigrateCheck(1)
  \/ MigrateExecLogged(1)
  \/ MigrateRecord(1)
  \/ CreateReturn
  \/ CloseContainer
  \/ CloseDB

SpecTest == InitTest /\ [][NextTest]_vars

\* The test is one goroutine that runs each call to its return: a step
\* that can be taken is taken.
SpecTestFair == SpecTest /\ WF_vars(NextTest)

\* ============================================================== properties
Last(q) == q[Len(q)]
Increasing(q) == \A m, n \in 1..Len(q) : m < n => q[m] < q[n]
InCall(c) == pc[c] # "idle"
Returned(c) == pc[c] = "returned"
Succeeded(c) == Returned(c) /\ ret[c] = [db |-> "handle", err |-> "nil"]

\* C1: a Connect (and so Migrate) that follows one that returned without
\* error changes neither the schema nor the Tracker, at any point of the
\* call, and executes the statements of no Step.
C1_MigrateIdempotent ==
  \A c \in Callers :
    (InCall(c) /\ prevOk[c]) => (db = db0[c] /\ ran[c] = <<>>)

\* The second of two runs in a row has completed, again without error.
C1_Witness ==
  \E c \in Callers : prevOk[c] /\ Succeeded(c)

\* C2: the statements of the Step at position i are about to be executed
\* only when every Step below i is recorded in the Tracker, and one call
\* executes Steps in increasing Registry position.
C2_RegistryOrder ==
  \A c \in Callers :
    /\ pc[c] = "exec" => \A j \in 1..(pos[c] - 1) : Recorded(db, j)
    /\ Increasing(ran[c])
    /\ pc[c] = "record" => (ran[c] # <<>> /\ Last(ran[c]) = pos[c])

\* The last Step is about to be executed after the call executed others.
C2_Witness ==
  \E c \in Callers : pc[c] = "exec" /\ pos[c] = NumSteps /\ Len(ran[c]) >= 2

\* C3: when Migrate fails at Step k, Connect returns the error with no
\* handle, k is the last Step the call attempted, exactly the Steps below k
\* are recorded, and the next call attempts Step k before any other.
C3_FailureIsolation ==
  \A c \in Callers :
    /\ (Returned(c) /\ failedAt[c] >= 1) =>
         /\ ret[c] = [db |-> "nil", err |-> "migrate_err"]
         /\ ran[c] # <<>> /\ Last(ran[c]) = failedAt[c]
         /\ RecordedSet(db) = 1..(failedAt[c] - 1)
    /\ (InCall(c) /\ lastFail[c] >= 1 /\ ran[c] # <<>>) => ran[c][1] = lastFail[c]

\* After a failure at a Step beyond the first, the next call re-attempted it.
C3_Witness ==
  \E c \in Callers : lastFail[c] >= 2 /\ ran[c] # <<>>

\* C4: whenever Connect has returned no handle, the handle it opened is
\* not left open.
C4_HandleReleasedOnFailure ==
  \A c \in Callers : (Returned(c) /\ ret[c].db = "nil") => handle[c] # "open"

\* C5: a failing Connect returns nil and the error of the stage that
\* failed; every stage before it was attempted once, the failing stage once,
\* no stage after it; a failed open or ping leaves the database as it was.
C5_NoHandleNoRetry ==
  \A c \in Callers :
    /\ tried[c].open <= 1 /\ tried[c].ping <= 1 /\ tried[c].migrate <= 1
    /\ (Returned(c) /\ ret[c].err # "nil") => ret[c].db = "nil"
    /\ (Returned(c) /\ ret[c].err = "open_err") =>
         (tried[c] = [open |-> 1, ping |-> 0, migrate |-> 0] /\ db = db0[c])
    /\ (Returned(c) /\ ret[c].err = "ping_err") =>
         /\ tried[c] = [open |-> 1, ping |-> 1, migrate |-> 0]
         /\ db = db0[c] /\ ran[c] = <<>>
    /\ (Returned(c) /\ ret[c].err = "migrate_err") =>
         tried[c] = [open |-> 1, ping |-> 1, migrate |-> 1]
    /\ (pc[c] \in {"migrate", "check", "exec", "record"}) =>
         (tried[c].open = 1 /\ tried[c].ping = 1)

\* The ping failed against a database that already holds recorded Steps.
C5_Witness ==
  \E c \in Callers :
    Returned(c) /\ ret[c].err = "ping_err" /\ RecordedSet(db) # {}

\* C6: during TestMySQLDB.Close the connection handle is released before
\* the instance: the instance is never torn down by Close while the handle
\* is still open.
C6_HandleClosedFirst ==
  closeLog # <<>> => (closeLog[1] = "db" /\ tdb = "closed")

\* C7: when CreateTestMySQLDB fails after the instance was created, the
\* instance has been torn down and no handle is left open.
C7_InstanceReleasedOnFailure ==
  tpc \in {"fatal_retry", "fatal_connect"} =>
    (container # "running" /\ handle[1] # "open" /\ probeOpen = 0)

\* C8: a Connect that no environment failure hits returns the handle with
\* every Registry Step recorded, whatever an interrupted earlier run left
\* behind (statements applied, id not yet recorded).
C8_RetryFromTopSafe ==
  \A c \in Callers :
    (Returned(c) /\ ~faulted[c]) => (Succeeded(c) /\ RecordedSet(db) = Steps)

\* C9, state part: the Tracker holds at most one row per Step id, and a
\* recorded Step's statements have taken effect.
C9_TrackerRows ==
  \A i \in Steps : Rows(db, i) <= 1 /\ (Recorded(db, i) => Applied(db, i))

\* C9, step part: no row leaves the Tracker, and a row enters it only
\* from a call that executed the Step's statements itself.
C9_TrackerStep ==
  \A i \in Steps :
    /\ Rows(db, i) <= Rows(db', i)
    /\ Rows(db, i) < Rows(db', i) =>
         \E c \in Callers : pc[c] = "record" /\ pos[c] = i /\ Last(ran[c]) = i

\* C9: Tracker uniqueness and monotonicity over every sequence of calls.
C9_TrackerMonotonic == [](C9_TrackerRows) /\ [][C9_TrackerStep]_vars

\* Every Step is recorded after a call had failed and another was made.
C9_Witness ==
  /\ RecordedSet(db) = Steps
  /\ \E c \in Callers : callsLeft[c] < MaxCalls - 1 /\ faultsLeft < MaxFaults

NoFaultYet == faultsLeft = MaxFaults

\* C10 as stated: with two concurrent callers and no environment failure,
\* no Step's statements are executed a second time, no id has two rows,
\* and once both callers have returned both hold a handle.
C10_Original ==
  NoFaultYet =>
    /\ \A c \in Callers : pc[c] = "exec" => ~Applied(db, pos[c])
    /\ \A i \in Steps : Rows(db, i) <= 1
    /\ (\A c \in Callers : Returned(c)) =>
         (\A c \in Callers : Succeeded(c)) /\ RecordedSet(db) = Steps

\* C10 amended, state part: no id has two rows; a caller that holds a
\* handle finds every id recorded; with no environment failure, once both
\* callers have returned at least one of them holds a handle.
C10_ConcState ==
  /\ \A i \in Steps : Rows(db, i) <= 1
  /\ \A c \in Callers : Succeeded(c) => RecordedSet(db) = Steps
  /\ (NoFaultYet /\ \A c \in Callers : Returned(c)) =>
       \E c \in Callers : Succeeded(c)

\* C10 amended, step part: within its call a caller moves forward through
\* the Registry only, so it executes each Step's statements at most once.
C10_ConcStep ==
  \A c \in Callers :
    /\ pc[c] \notin {"idle", "returned"} => pos'[c] >= pos[c]
    /\ pc[c] = "exec" => (pc'[c] \in {"exec", "record", "returned"} /\ pos'[c] = pos[c])
    /\ (pc[c] = "record" /\ pc'[c] = "check") => pos'[c] = pos[c] + 1

\* C10 amended.
C10_ConcurrentBootstrap == [](C10_ConcState) /\ [][C10_ConcStep]_vars

\* Both callers executed the last Step's statements: one returned the
\* handle, the other an error, and no environment failure occurred.
C10_Witness ==
  /\ NoFaultYet
  /\ \E c, e \in Callers :
       Succeeded(c) /\ Returned(e) /\ ret[e].err = "migrate_err" /\ failedAt[e] = NumSteps

\* C11: when the first Close released both the instance and the handle, a
\* second Close does not panic, returns no error, and leaves the instance
\* torn down and the handle closed as they were.
C11_DoubleCloseBenign ==
  (closes >= 2 /\ firstOk) =>
    /\ tpc # "panicked" /\ closeRet # "panic"
    /\ container = "closed" /\ tdb = "closed"
    /\ tpc = "closed" => closeRet = "nil"

\* A second Close has returned after a first one that released everything.
C11_Witness ==
  closes = 2 /\ firstOk /\ tpc = "closed" /\ contRes = "gone"

\* C17: when Close has returned, a failed teardown of the instance is
\* reported by the returned error, and so is a failed close of the handle;
\* both releases were attempted in every call.
C17_NoTeardownErrorSwallowed ==
  tpc = "closed" =>
    /\ contRes = "failed" => closeRet = "err"
    /\ Len(closeLog) = 2 * closes
    /\ closeLog[Len(closeLog) - 1] = "container" /\ Last(closeLog) = "db"

\* The Steps recorded when the current call of c began.
Before(c) == RecordedSet(db0[c])

\* C13: a call that begins with exactly a prefix 1..k of the Registry
\* recorded executes no Step of the prefix, and when it succeeds it has
\* executed exactly the Steps k+1..NumSteps, each once, in Registry order.
C13_PrefixUpgrade ==
  \A c \in Callers :
    LET k == Cardinality(Before(c)) IN
      (InCall(c) /\ Before(c) = 1..k) =>
        /\ \A m \in 1..Len(ran[c]) : ran[c][m] = k + m
        /\ Succeeded(c) => Len(ran[c]) = NumSteps - k

\* A call succeeded that began with a proper, non-empty prefix recorded.
C13_Witness ==
  \E c \in Callers :
    /\ Succeeded(c)
    /\ Before(c) = 1..Cardinality(Before(c))
    /\ Cardinality(Before(c)) \in 1..(NumSteps - 1)

\* C14: a caller that was returned a handle went through exactly one
\* open, one ping and one Migrate, none of which failed, and finds every
\* Registry Step recorded once and applied; the TestMySQLDB a test holds
\* wraps such a handle on a running instance.
C14_HandleFullyMigrated ==
  /\ \A c \in Callers :
       Succeeded(c) =>
         /\ tried[c] = [open |-> 1, ping |-> 1, migrate |-> 1]
         /\ ~faulted[c]
         /\ \A i \in Steps : Rows(db, i) = 1 /\ Applied(db, i)
  /\ tpc = "held" =>
       /\ Succeeded(1) /\ tdb = "open" /\ handle[1] = "open"
       /\ container = "running"
       /\ RecordedSet(db) = Steps

\* CreateTestMySQLDB has returned a TestMySQLDB.
C14_Witness ==
  tpc = "held" /\ Succeeded(1) /\ db0[1] = EmptyDB

\* What the Steps not recorded when the call of c began may add.
NewTables(c) ==
  {Registry[i].table : i \in {j \in Steps \ Before(c) : Registry[j].kind = "create"}}
NewColumns(c) ==
  {<<Registry[i].table, Registry[i].column>> :
     i \in {j \in Steps \ Before(c) : Registry[j].kind = "addcol"}}

\* C15: at every point of a Connect call the application's rows are what
\* they were when the call began, nothing of the schema or the Tracker is
\* removed, and what is added are tables, columns and Tracker rows of Steps
\* not recorded before; a call that begins with every Step recorded
\* changes nothing at all and, unless the environment fails it, returns
\* the handle.
C15_ConnectFrame ==
  \A c \in Callers :
    InCall(c) =>
      /\ db.data = db0[c].data
      /\ db0[c].tables \subseteq db.tables
      /\ db0[c].columns \subseteq db.columns
      /\ db.tables \ db0[c].tables \subseteq NewTables(c)
      /\ db.columns \ db0[c].columns \subseteq NewColumns(c)
      /\ \A i \in Steps : Rows(db0[c], i) <= Rows(db, i)
      /\ \A i \in Before(c) : Rows(db, i) = Rows(db0[c], i)
      /\ Before(c) = Steps =>
           /\ db = db0[c]
           /\ (Returned(c) /\ ~faulted[c]) => Succeeded(c)

\* Connect returned the handle on a database that was fully migrated and
\* held application rows when the call began.
C15_Witness ==
  \E c \in Callers :
    Succeeded(c) /\ Before(c) = Steps /\ db0[c].data # {}

\* CreateTestMySQLDB is over: skipped, failed for good, or returned.
CreateDone ==
  tpc \in {"skipped", "fatal_pool", "fatal_run", "fatal_retry",
           "fatal_connect", "held"}

\* C16: the readiness poll never exceeds its budget of attempts, no probe
\* handle is open when an attempt begins or when the poll is over, and
\* every call of CreateTestMySQLDB comes to an end.
C16_ProvisionTerminates ==
  /\ [](probes <= MaxProbes /\ probeOpen <= 1)
  /\ [](tpc # "probing" => probeOpen = 0)
  /\ <>CreateDone

\* The poll used its whole budget and gave up.
C16_Witness ==
  tpc = "fatal_retry" /\ probes = MaxProbes /\ probeOpen = 0

\* No caller has touched the database: no call begun, nothing opened,
\* pinged or migrated, the database as it was.
Untouched ==
  /\ \A c \in Callers : pc[c] = "idle" /\ handle[c] = "none" /\ tried[c] = NoTry
  /\ db = EmptyDB

====
